---- MODULE Spec2Model ----
(***************************************************************************)
(* Model of the medal dashboard (src/src/main.jsx): the load sequence run  *)
(* by the mount effect (loadData), the helpers it calls (parseCSV,         *)
(* buildHistoryChartData, the top-5 derivation), the three-way screen      *)
(* choice of the render function, and the click handlers setView,          *)
(* setMedalType and toggleCountry.                                         *)
(*                                                                         *)
(* hoveredRow (a row highlight, main.jsx:115) is presentation state that   *)
(* nothing else reads; it is left out of the state.                        *)
(***************************************************************************)
EXTENDS Integers, Sequences, FiniteSets, TLC

\* ------------------------------------------------------------------------
\* Bounds of the model
\* ------------------------------------------------------------------------

\* Largest number of data rows in a "latest" response.
MaxRows == 6

\* Largest Gold count of a row.
MaxGold == 1

\* ------------------------------------------------------------------------
\* JavaScript values
\* ------------------------------------------------------------------------

\* A value is a record with a kind, so that numbers, strings, undefined and
\* NaN can live in one field.
Num(n) == [kind |-> "number", n |-> n, s |-> ""]
Str(s) == [kind |-> "string", n |-> 0, s |-> s]
Undefined == [kind |-> "undefined", n |-> 0, s |-> ""]
NaN == [kind |-> "nan", n |-> 0, s |-> ""]

\* null, and a present value, of a state cell that starts as null
\* (useState(null)).
Null == <<>>
Some(x) == <<x>>

Range(f) == {f[i] : i \in DOMAIN f}

\* Decimal numerals, indexed by value + 1.
Numerals == <<"0", "1", "2", "3", "4", "5", "6", "7", "8", "9">>

\* Number(val) on a trimmed cell: "" is 0, a numeral is its value, any other
\* text is NaN.
NumberOf(s) ==
    IF s = "" THEN Num(0)
    ELSE IF \E i \in DOMAIN Numerals : Numerals[i] = s
    THEN Num((CHOOSE i \in DOMAIN Numerals : Numerals[i] = s) - 1)
    ELSE NaN

\* ToNumber of a value, as the subtraction in the sort comparator applies it.
ToNumber(v) ==
    CASE v.kind = "number" -> v
      [] v.kind = "string" -> NumberOf(v.s)
      [] OTHER -> NaN

\* The property key a value turns into when used as obj[value].
ToKey(v) ==
    CASE v.kind = "string" -> v.s
      [] v.kind = "number" -> Numerals[v.n + 1]
      [] v.kind = "nan" -> "NaN"
      [] OTHER -> "undefined"

\* obj.key: undefined for a key the object does not have.
Get(obj, key) == IF key \in DOMAIN obj THEN obj[key] ELSE Undefined

\* obj with obj[key] = val.
Put(obj, key, val) ==
    [k \in DOMAIN obj \cup {key} |-> IF k = key THEN val ELSE obj[k]]

\* ------------------------------------------------------------------------
\* parseCSV (main.jsx:10-26)
\* ------------------------------------------------------------------------

\* A text is modelled after normalisation and splitting: a sequence of lines,
\* each the sequence of its trimmed cells. The line "" splits into the single
\* cell "".
IsBlankLine(line) == line = <<"">>

\* One cell: [h, isNaN(num) || val === "" ? val : num].
Coerce(val) ==
    IF NumberOf(val).kind = "nan" \/ val = "" THEN Str(val) ELSE NumberOf(val)

\* Object.fromEntries(headers.map((h, i) => ...)): a later duplicate header
\* wins; a missing trailing value is "".
ParseLine(headers, values) ==
    [h \in Range(headers) |->
        LET i == CHOOSE j \in DOMAIN headers :
                    /\ headers[j] = h
                    /\ \A k \in DOMAIN headers : headers[k] = h => k <= j
        IN  Coerce(IF i \in DOMAIN values THEN values[i] ELSE "")]

RECURSIVE ParseLines(_, _)
ParseLines(headers, lines) ==
    IF lines = <<>> THEN <<>>
    ELSE IF IsBlankLine(Head(lines)) THEN ParseLines(headers, Tail(lines))
    ELSE <<ParseLine(headers, Head(lines))>> \o ParseLines(headers, Tail(lines))

parseCSV(text) == ParseLines(Head(text), Tail(text))

\* ------------------------------------------------------------------------
\* The map callback of parseCSV, character by character (main.jsx:16-24)
\* ------------------------------------------------------------------------

\* Here a data line is the sequence of its characters, and a string value
\* holds the sequence of its characters.

\* Longest data line.
MaxLineLen == 5

\* White space, as trim() and Number() strip it.
IsSpace(c) == c = " "

RECURSIVE TrimStart(_)
TrimStart(cs) ==
    IF cs # <<>> /\ IsSpace(Head(cs)) THEN TrimStart(Tail(cs)) ELSE cs

RECURSIVE TrimEnd(_)
TrimEnd(cs) ==
    IF cs # <<>> /\ IsSpace(cs[Len(cs)])
    THEN TrimEnd(SubSeq(cs, 1, Len(cs) - 1))
    ELSE cs

\* v.trim()
Trim(cs) == TrimEnd(TrimStart(cs))

\* line.split(","): the pieces between the commas; a line without a comma,
\* the empty one too, is one piece.
RECURSIVE SplitComma(_)
SplitComma(cs) ==
    IF \A i \in DOMAIN cs : cs[i] # "," THEN <<cs>>
    ELSE LET i == CHOOSE j \in DOMAIN cs :
                    cs[j] = "," /\ \A k \in 1..(j - 1) : cs[k] # ","
         IN  <<SubSeq(cs, 1, i - 1)>> \o SplitComma(SubSeq(cs, i + 1, Len(cs)))

\* Hexadecimal digits, indexed by value + 1.
HexDigits ==
    Numerals \o <<"a", "b", "c", "d", "e", "f">>

\* Whether cs is a non-empty run of the digits given.
AllDigits(cs, digits) ==
    cs # <<>> /\ \A i \in DOMAIN cs : cs[i] \in Range(digits)

\* The value of a run of digits in base Len(digits).
RECURSIVE DigitsValue(_, _)
DigitsValue(cs, digits) ==
    IF cs = <<>> THEN 0
    ELSE DigitsValue(SubSeq(cs, 1, Len(cs) - 1), digits) * Len(digits)
            + (CHOOSE i \in DOMAIN digits : digits[i] = cs[Len(cs)]) - 1

\* Number(val) on a string: white space around it is dropped; the empty
\* string is 0; an unsigned or signed run of decimal digits and "0x" before a
\* run of hexadecimal digits are their value ("-0" is the number -0, held as
\* 0); any other text of the characters of the model is NaN. The forms with
\* ".", an exponent, "0b", "0o" and "Infinity" need characters the model's
\* lines do not have.
NumberOfChars(cs) ==
    LET t == Trim(cs)
    IN  IF t = <<>> THEN Num(0)
        ELSE IF Len(t) > 2 /\ t[1] = "0" /\ t[2] \in {"x", "X"}
                /\ AllDigits(SubSeq(t, 3, Len(t)), HexDigits)
        THEN Num(DigitsValue(SubSeq(t, 3, Len(t)), HexDigits))
        ELSE IF t[1] = "-" /\ AllDigits(Tail(t), Numerals)
        THEN Num(0 - DigitsValue(Tail(t), Numerals))
        ELSE IF t[1] = "+" /\ AllDigits(Tail(t), Numerals)
        THEN Num(DigitsValue(Tail(t), Numerals))
        ELSE IF AllDigits(t, Numerals)
        THEN Num(DigitsValue(t, Numerals))
        ELSE NaN

\* CoerceChars without the test val === "": an empty field becomes 0.
CoerceCharsEmptyIsZero(val) ==
    IF NumberOfChars(val).kind = "nan" THEN Str(val) ELSE NumberOfChars(val)

\* One field: const num = Number(val);
\* [h, isNaN(num) || val === "" ? val : num] (main.jsx:21-22).
CoerceChars(val) ==
    IF NumberOfChars(val).kind = "nan" \/ val = <<>>
    THEN Str(val)
    ELSE NumberOfChars(val)

\* The callback on one line: the values are the trimmed pieces of the line
\* (main.jsx:17); header i takes values[i] ?? "" (main.jsx:20); a later
\* duplicate header wins in Object.fromEntries.
ParseLineChars(headers, cs) ==
    LET pieces == SplitComma(cs)
        values == [i \in DOMAIN pieces |-> Trim(pieces[i])]
    IN  [h \in Range(headers) |->
            LET i == CHOOSE j \in DOMAIN headers :
                        /\ headers[j] = h
                        /\ \A k \in DOMAIN headers : headers[k] = h => k <= j
            IN  CoerceChars(IF i \in DOMAIN values THEN values[i] ELSE <<>>)]

\* ------------------------------------------------------------------------
\* buildHistoryChartData (main.jsx:29-38)
\* ------------------------------------------------------------------------

\* new Date(row.Scrape_Date).toLocaleDateString("en-US", {month: "short",
\* day: "2-digit"}) for the dates of the model, read in the UTC time zone:
\* the year is dropped, so the same day of two years gets one label; a value
\* that is no date gives "Invalid Date".
DateLabel(v) ==
    CASE v.kind = "string" /\ v.s = "2026-02-06" -> "Feb 06"
      [] v.kind = "string" /\ v.s = "2026-02-07" -> "Feb 07"
      [] v.kind = "string" /\ v.s = "2027-02-06" -> "Feb 06"
      [] v.kind = "number" -> "Jan 01"
      [] OTHER -> "Invalid Date"

\* byDate is kept as the sequence of its entries in insertion order, each
\* entry a label and the point stored under it.
HasLabel(byDate, label) == \E i \in DOMAIN byDate : byDate[i].label = label

\* One pass of the loop body (main.jsx:32-35).
PivotStep(byDate, row) ==
    LET label == DateLabel(Get(row, "Scrape_Date"))
        withPoint ==
            IF HasLabel(byDate, label) THEN byDate
            ELSE Append(byDate, [label |-> label,
                                 point |-> [k \in {"date"} |-> Str(label)]])
    IN  [i \in DOMAIN withPoint |->
            IF withPoint[i].label = label
            THEN [withPoint[i] EXCEPT
                    !.point = Put(@, ToKey(Get(row, "Country")), Get(row, "Gold"))]
            ELSE withPoint[i]]

RECURSIVE PivotLoop(_, _)
PivotLoop(byDate, rows) ==
    IF rows = <<>> THEN byDate
    ELSE PivotLoop(PivotStep(byDate, Head(rows)), Tail(rows))

\* Object.values(byDate): the points, in insertion order of their labels.
buildHistoryChartData(rows) ==
    LET byDate == PivotLoop(<<>>, rows)
    IN  [i \in DOMAIN byDate |-> byDate[i].point]

\* ------------------------------------------------------------------------
\* Top-5 derivation (main.jsx:157-160)
\* ------------------------------------------------------------------------

\* Number of countries offered for selection: slice(0, 5).
TopN == 5

\* Number of countries selected after a load: top5.slice(0, 3).
InitialSelected == 3

\* CompareGold with the operands of the subtraction swapped.
CompareGoldAscending(a, b) ==
    LET x == ToNumber(Get(a, "Gold"))
        y == ToNumber(Get(b, "Gold"))
    IN  IF x.kind = "nan" \/ y.kind = "nan" THEN 0 ELSE x.n - y.n

\* (a, b) => b.Gold - a.Gold; a NaN result counts as 0 in sort.
CompareGold(a, b) ==
    LET x == ToNumber(Get(b, "Gold"))
        y == ToNumber(Get(a, "Gold"))
    IN  IF x.kind = "nan" \/ y.kind = "nan" THEN 0 ELSE x.n - y.n

\* Whether row j stands before row i after a stable sort: it compares before
\* it, or compares equal and precedes it in the input.
SortsBefore(rows, j, i) ==
    \/ CompareGold(rows[j], rows[i]) < 0
    \/ CompareGold(rows[j], rows[i]) = 0 /\ j < i

\* [...latest].sort(cmp): Array.prototype.sort is stable, so each row lands
\* behind exactly the rows that stand before it. (With a NaN Gold the
\* comparator orders nothing consistently and the result is up to the engine;
\* the texts of the model have none.)
SortByGold(rows) ==
    [r \in DOMAIN rows |->
        rows[CHOOSE i \in DOMAIN rows :
                Cardinality({j \in DOMAIN rows : SortsBefore(rows, j, i)}) = r - 1]]

\* arr.slice(0, n)
Slice(arr, n) == SubSeq(arr, 1, IF Len(arr) < n THEN Len(arr) ELSE n)

Top5(latest) ==
    LET sorted == Slice(SortByGold(latest), TopN)
    IN  [i \in DOMAIN sorted |-> Get(sorted[i], "Country")]

\* ------------------------------------------------------------------------
\* Inputs of the model: the texts a server may answer with
\* ------------------------------------------------------------------------

\* Country names, one per row position of a "latest" text.
NameList ==
    <<"Norway", "Germany", "Italy", "Sweden", "France", "Japan", "Canada", "Austria">>

LatestHeader == <<"Country", "Gold", "Scrape_Date">>
HistoryHeader == <<"Scrape_Date", "Country", "Gold">>

\* A "latest" text of n rows: row i is country i with gold[i]; the first row
\* carries firstDate, the others the 6th of February.
LatestText(n, gold, firstDate) ==
    <<LatestHeader>> \o
    [i \in 1..n |->
        <<NameList[i], Numerals[gold[i] + 1],
          IF i = 1 THEN firstDate ELSE "2026-02-06">>]

\* The first-row dates of the "latest" texts.
FirstDates == {"2026-02-06", "2026-02-07"}

\* Gold counts of n rows that are all distinct: 0..n-1, rotated by k.
Rotated(n, k) == [i \in 1..n |-> (i + k) % n]

\* The "latest" texts used where the whole program runs: no row, two rows and
\* MaxRows rows, Gold rising and falling with the row number.
SampleLatestTexts ==
    {LatestText(n, [i \in 1..n |-> i % (MaxGold + 1)], "2026-02-07") :
        n \in {0, 2, MaxRows}}

\* "history" texts: an empty file, and one with a repeated day, a blank line
\* and two days.
HistoryTexts ==
    { <<HistoryHeader>>,
      <<HistoryHeader,
        <<"2026-02-06", "Norway", "1">>,
        <<"2026-02-06", "Germany", "0">>,
        <<"">>,
        <<"2026-02-07", "Norway", "2">>>> }

\* The body of an error page: never read by loadData.
ErrorPage == <<<<"Not Found">>>>

\* HTTP statuses a response may carry.
Statuses == {200, 404, 500}

\* Response.ok
Ok(res) == res.status \in 200..299

\* The reason a rejected fetch carries (a TypeError's message), and the one a
\* failed body read carries.
FetchFailure == <<"Failed to fetch">>
ReadFailure == <<"network error">>

\* ------------------------------------------------------------------------
\* State
\* ------------------------------------------------------------------------

VARIABLES
    view,               \* useState("table")
    medalType,          \* useState("Gold")
    loaded,             \* useState(false)
    fetchError,         \* useState(null)
    latestData,         \* useState([])
    historyData,        \* useState([])
    countries,          \* useState([])
    selectedCountries,  \* useState([])
    lastUpdated,        \* useState(null)
    pc,                 \* where loadData stands
    err,                \* the exception loadData caught, or Null
    latestFetch,        \* fetch(.../medal_table_latest.csv)
    historyFetch,       \* fetch(.../medal_table_history.csv)
    fetchJoin,          \* Promise.all of the two fetches
    latestRead,         \* latestRes.text()
    historyRead,        \* historyRes.text()
    readJoin,           \* Promise.all of the two reads
    line,               \* the data line the map callback of parseCSV is given
    record              \* the record the callback returned for it, or Null

uiVars == <<view, medalType>>
dataVars == <<latestData, historyData, countries, selectedCountries, lastUpdated>>
flagVars == <<loaded, fetchError>>
fetchVars == <<latestFetch, historyFetch, fetchJoin>>
readVars == <<latestRead, historyRead, readJoin>>
parseVars == <<line, record>>
vars == <<uiVars, dataVars, flagVars, pc, err, fetchVars, readVars, parseVars>>

Views == {"table", "bar", "timeseries"}
MedalTypes == {"Gold", "Silver", "Bronze", "Total"}

\* A promise: not yet created, pending, fulfilled with res, or rejected with
\* reason.
NoRes == [status |-> 0, body |-> <<<<"">>>>]
Unissued == [state |-> "unissued", res |-> NoRes, reason |-> <<>>]
Pending == [state |-> "pending", res |-> NoRes, reason |-> <<>>]
Fulfilled(res) == [state |-> "fulfilled", res |-> res, reason |-> <<>>]
Rejected(reason) == [state |-> "rejected", res |-> NoRes, reason |-> reason]

Settled(p) == p.state \in {"fulfilled", "rejected"}

\* The component before its effect has run.
Unmounted ==
    /\ view = "table"
    /\ medalType = "Gold"
    /\ loaded = FALSE
    /\ fetchError = Null
    /\ latestData = <<>>
    /\ historyData = <<>>
    /\ countries = <<>>
    /\ selectedCountries = <<>>
    /\ lastUpdated = Null
    /\ pc = "mount"
    /\ err = Null
    /\ latestFetch = Unissued
    /\ historyFetch = Unissued
    /\ fetchJoin = Unissued
    /\ latestRead = Unissued
    /\ historyRead = Unissued
    /\ readJoin = Unissued

\* No line is being parsed apart from the load.
Init ==
    /\ Unmounted
    /\ line = <<>>
    /\ record = Null

\* ------------------------------------------------------------------------
\* Promise.all (main.jsx:132, 143)
\* ------------------------------------------------------------------------

\* The joined promise after one of its two inputs has settled: it rejects
\* with the reason of the first input that rejects, fulfils when both have
\* fulfilled, and never changes once settled.
\* JoinAfter that settles with the first input to settle, as Promise.race
\* does.
JoinAfterFirst(join, p, q) ==
    IF join.state # "pending" THEN join
    ELSE IF p.state = "rejected" THEN Rejected(p.reason)
    ELSE IF q.state = "rejected" THEN Rejected(q.reason)
    ELSE IF p.state = "fulfilled" \/ q.state = "fulfilled" THEN Fulfilled(NoRes)
    ELSE join

JoinAfter(join, p, q) ==
    IF join.state # "pending" THEN join
    ELSE IF p.state = "rejected" THEN Rejected(p.reason)
    ELSE IF q.state = "rejected" THEN Rejected(q.reason)
    ELSE IF p.state = "fulfilled" /\ q.state = "fulfilled" THEN Fulfilled(NoRes)
    ELSE join

\* ------------------------------------------------------------------------
\* loadData (main.jsx:128-175)
\* ------------------------------------------------------------------------

\* useEffect(..., []): the effect calls loadData once, after the first render
\* (the second run of effects that StrictMode adds in development builds is
\* not modelled).
\* The two fetches are created, then Promise.all over them is awaited
\* (main.jsx:132-135).
Mount ==
    /\ pc = "mount"
    /\ latestFetch' = Pending
    /\ historyFetch' = Pending
    /\ fetchJoin' = Pending
    /\ pc' = "awaitFetch"
    /\ UNCHANGED <<parseVars, uiVars, dataVars, flagVars, err, readVars>>

\* The ways a fetch settles without the wanted text: a rejection, or a
\* response of a failure status (fetch fulfils on 404 and 500 too).
FailedOutcomes ==
    {Rejected(FetchFailure)}
        \cup {Fulfilled([status |-> st, body |-> ErrorPage]) : st \in Statuses \ {200}}

\* A response of status 200 carrying text.
OkOutcome(text) == Fulfilled([status |-> 200, body |-> text])

\* The network settles the "latest" fetch with outcome.
LatestFetchSettles(outcome) ==
    /\ latestFetch.state = "pending"
    /\ latestFetch' = outcome
    /\ fetchJoin' = JoinAfter(fetchJoin, outcome, historyFetch)
    /\ UNCHANGED <<parseVars, uiVars, dataVars, flagVars, pc, err, historyFetch, readVars>>

\* The network settles the "history" fetch with outcome.
HistoryFetchSettles(outcome) ==
    /\ historyFetch.state = "pending"
    /\ historyFetch' = outcome
    /\ fetchJoin' = JoinAfter(fetchJoin, outcome, latestFetch)
    /\ UNCHANGED <<parseVars, uiVars, dataVars, flagVars, pc, err, latestFetch, readVars>>

\* await Promise.all([...fetches]) returns or throws (main.jsx:132).
ResumeAfterFetch ==
    /\ pc = "awaitFetch"
    /\ Settled(fetchJoin)
    /\ IF fetchJoin.state = "rejected"
       THEN /\ err' = Some(fetchJoin.reason)
            /\ pc' = "catch"
       ELSE /\ err' = err
            /\ pc' = "check"
    /\ UNCHANGED <<parseVars, uiVars, dataVars, flagVars, fetchVars, readVars>>

\* StatusError without the check of the history response.
StatusErrorLatestOnly(latestRes, historyRes) ==
    IF ~Ok(latestRes) THEN Some(<<"latest CSV: ", latestRes.status>>)
    ELSE Null

\* The message thrown by the status checks (main.jsx:140-141), or Null when
\* both responses are ok.
StatusError(latestRes, historyRes) ==
    IF ~Ok(latestRes) THEN Some(<<"latest CSV: ", latestRes.status>>)
    ELSE IF ~Ok(historyRes) THEN Some(<<"history CSV: ", historyRes.status>>)
    ELSE Null

\* The status checks, then the two body reads are created and their
\* Promise.all is awaited (main.jsx:140-146).
CheckStatus ==
    /\ pc = "check"
    /\ LET thrown == StatusError(latestFetch.res, historyFetch.res)
       IN  IF thrown # Null
           THEN /\ err' = thrown
                /\ pc' = "catch"
                /\ UNCHANGED readVars
           ELSE /\ latestRead' = Pending
                /\ historyRead' = Pending
                /\ readJoin' = Pending
                /\ pc' = "awaitText"
                /\ err' = err
    /\ UNCHANGED <<parseVars, uiVars, dataVars, flagVars, fetchVars>>

\* The body of the "latest" response arrives in full, or reading it fails.
\* A fulfilled read holds the response whose body is its text.
LatestReadSettles ==
    /\ latestRead.state = "pending"
    /\ \E outcome \in {Rejected(ReadFailure), Fulfilled(latestFetch.res)} :
        /\ latestRead' = outcome
        /\ readJoin' = JoinAfter(readJoin, outcome, historyRead)
    /\ UNCHANGED <<parseVars, uiVars, dataVars, flagVars, pc, err, fetchVars, historyRead>>

HistoryReadSettles ==
    /\ historyRead.state = "pending"
    /\ \E outcome \in {Rejected(ReadFailure), Fulfilled(historyFetch.res)} :
        /\ historyRead' = outcome
        /\ readJoin' = JoinAfter(readJoin, outcome, latestRead)
    /\ UNCHANGED <<parseVars, uiVars, dataVars, flagVars, pc, err, fetchVars, latestRead>>

\* await Promise.all([...reads]) returns or throws (main.jsx:143).
ResumeAfterRead ==
    /\ pc = "awaitText"
    /\ Settled(readJoin)
    /\ IF readJoin.state = "rejected"
       THEN /\ err' = Some(readJoin.reason)
            /\ pc' = "catch"
       ELSE /\ err' = err
            /\ pc' = "derive"
    /\ UNCHANGED <<parseVars, uiVars, dataVars, flagVars, fetchVars, readVars>>

\* LastUpdatedOf reading the last record instead of the first.
LastUpdatedOfLastRow(latest) ==
    IF latest = <<>> \/ Get(latest[Len(latest)], "Scrape_Date").kind = "undefined"
    THEN Null
    ELSE Some(Get(latest[Len(latest)], "Scrape_Date"))

\* latest[0]?.Scrape_Date ?? null (main.jsx:168)
LastUpdatedOf(latest) ==
    IF latest = <<>> \/ Get(latest[1], "Scrape_Date").kind = "undefined"
    THEN Null
    ELSE Some(Get(latest[1], "Scrape_Date"))

\* Derive with latest[0].Scrape_Date read without "?.": on an empty table the
\* read throws after four setters have run.
DeriveThrowsOnEmpty ==
    /\ pc = "derive"
    /\ \E latest \in {parseCSV(latestRead.res.body)},
          history \in {parseCSV(historyRead.res.body)} :
       \E chartHistory \in {buildHistoryChartData(history)},
          top5 \in {Top5(latest)} :
           /\ latestData' = latest
           /\ historyData' = chartHistory
           /\ countries' = top5
           /\ selectedCountries' = Slice(top5, InitialSelected)
           /\ IF latest = <<>>
              THEN /\ lastUpdated' = lastUpdated
                   /\ err' = Some(<<"Cannot read properties of undefined">>)
                   /\ pc' = "catch"
              ELSE /\ lastUpdated' = LastUpdatedOf(latest)
                   /\ err' = err
                   /\ pc' = "finally"
    /\ UNCHANGED <<parseVars, uiVars, flagVars, fetchVars, readVars>>

\* Parsing, pivoting, the top-5 list and the five setters (main.jsx:150-168).
\* The locals latest, history, chartHistory and top5 are bound to their values
\* once.
Derive ==
    /\ pc = "derive"
    /\ \E latest \in {parseCSV(latestRead.res.body)},
          history \in {parseCSV(historyRead.res.body)} :
       \E chartHistory \in {buildHistoryChartData(history)},
          top5 \in {Top5(latest)} :
           /\ latestData' = latest
           /\ historyData' = chartHistory
           /\ countries' = top5
           /\ selectedCountries' = Slice(top5, InitialSelected)
           /\ lastUpdated' = LastUpdatedOf(latest)
    /\ pc' = "finally"
    /\ UNCHANGED <<parseVars, uiVars, flagVars, err, fetchVars, readVars>>

\* Catch with setLoaded(true) at the end of the try block instead of in a
\* finally block: the failure path ends without it.
CatchWithoutFinally ==
    /\ pc = "catch"
    /\ fetchError' = err
    /\ pc' = "done"
    /\ UNCHANGED <<parseVars, uiVars, dataVars, loaded, err, fetchVars, readVars>>

\* Catch that logs the error and stores nothing.
CatchOnlyLogs ==
    /\ pc = "catch"
    /\ pc' = "finally"
    /\ UNCHANGED <<parseVars, uiVars, dataVars, flagVars, err, fetchVars, readVars>>

\* catch (err) { setFetchError(err.message) } (main.jsx:169-171)
Catch ==
    /\ pc = "catch"
    /\ fetchError' = err
    /\ pc' = "finally"
    /\ UNCHANGED <<parseVars, uiVars, dataVars, loaded, err, fetchVars, readVars>>

\* finally { setLoaded(true) } (main.jsx:172-174)
Finally ==
    /\ pc = "finally"
    /\ loaded' = TRUE
    /\ pc' = "done"
    /\ UNCHANGED <<parseVars, uiVars, dataVars, fetchError, err, fetchVars, readVars>>

\* ------------------------------------------------------------------------
\* Render and click handlers
\* ------------------------------------------------------------------------

\* if (fetchError): null and the empty string are falsy.
Truthy(msg) == msg # Null /\ msg # Some(<<"">>)

\* The screen the render function returns (main.jsx:190, 202, 309).
Screen ==
    IF ~loaded THEN "loading"
    ELSE IF Truthy(fetchError) THEN "error"
    ELSE "dashboard"

\* SetView that also puts the medal filter back to its default.
SetViewResetsFilter(v) ==
    /\ Screen = "dashboard"
    /\ view' = v
    /\ medalType' = "Gold"
    /\ UNCHANGED <<parseVars, dataVars, flagVars, pc, err, fetchVars, readVars>>

\* onClick={() => setView(v)} of a tab (main.jsx:348-349).
SetView(v) ==
    /\ Screen = "dashboard"
    /\ view' = v
    /\ UNCHANGED <<parseVars, medalType, dataVars, flagVars, pc, err, fetchVars, readVars>>

\* onClick={() => setMedalType(t)} of a filter button, shown in the bar view
\* (main.jsx:391-396).
SetMedalType(t) ==
    /\ Screen = "dashboard"
    /\ view = "bar"
    /\ medalType' = t
    /\ UNCHANGED <<parseVars, view, dataVars, flagVars, pc, err, fetchVars, readVars>>

\* prev.includes(c) ? prev.filter(x => x !== c)
\*                  : prev.length < 5 ? [...prev, c] : prev  (main.jsx:181)
SelectionCap == 5

\* Toggled with the oldest selection evicted when the selection is full.
ToggledEvictsOldest(prev, c) ==
    IF c \in Range(prev) THEN SelectSeq(prev, LAMBDA x : x # c)
    ELSE IF Len(prev) < SelectionCap THEN Append(prev, c)
    ELSE Append(Tail(prev), c)

\* Toggled with a removal that drops the last member instead of c.
ToggledDropsLast(prev, c) ==
    IF c \in Range(prev) THEN SubSeq(prev, 1, Len(prev) - 1)
    ELSE IF Len(prev) < SelectionCap THEN Append(prev, c)
    ELSE prev

Toggled(prev, c) ==
    IF c \in Range(prev) THEN SelectSeq(prev, LAMBDA x : x # c)
    ELSE IF Len(prev) < SelectionCap THEN Append(prev, c)
    ELSE prev

\* The names toggleCountry is called with. The buttons pass the names of
\* countries; the handler takes any name, and it is called here with each of
\* six names, so that a full selection and a name outside it exist.
ToggleNames == {Str(NameList[i]) : i \in 1..(SelectionCap + 1)}

\* toggleCountry(c) (main.jsx:179-183), reached from the country buttons of
\* the time-series view (main.jsx:427-432).
ToggleCountry(c) ==
    /\ Screen = "dashboard"
    /\ view = "timeseries"
    /\ selectedCountries' = Toggled(selectedCountries, c)
    /\ UNCHANGED <<parseVars, uiVars, latestData, historyData, countries, lastUpdated,
                   flagVars, pc, err, fetchVars, readVars>>

\* ------------------------------------------------------------------------
\* Specifications
\* ------------------------------------------------------------------------

\* The steps of loadData itself.
LoadDataStep ==
    \/ Mount
    \/ ResumeAfterFetch
    \/ CheckStatus
    \/ ResumeAfterRead
    \/ Derive
    \/ Catch
    \/ Finally

Next ==
    \/ LoadDataStep
    \/ \E o \in FailedOutcomes : LatestFetchSettles(o)
    \/ \E t \in SampleLatestTexts : LatestFetchSettles(OkOutcome(t))
    \/ \E o \in FailedOutcomes : HistoryFetchSettles(o)
    \/ \E t \in HistoryTexts : HistoryFetchSettles(OkOutcome(t))
    \/ LatestReadSettles
    \/ HistoryReadSettles
    \/ \E v \in Views : SetView(v)
    \/ \E t \in MedalTypes : SetMedalType(t)
    \/ \E c \in ToggleNames : ToggleCountry(c)

\* The whole program on the sample texts.
Spec == Init /\ [][Next]_vars

\* The load sequence alone, on every "latest" text within the bounds and on
\* texts whose Gold counts are all distinct.
NextLoad ==
    \/ LoadDataStep
    \/ \E o \in FailedOutcomes : LatestFetchSettles(o)
    \/ /\ latestFetch.state = "pending"
       /\ \E n \in 0..MaxRows, d \in FirstDates :
            \E gold \in [1..n -> 0..MaxGold] \cup {Rotated(n, k) : k \in 0..1} :
                LatestFetchSettles(OkOutcome(LatestText(n, gold, d)))
    \/ \E o \in FailedOutcomes : HistoryFetchSettles(o)
    \/ \E t \in HistoryTexts : HistoryFetchSettles(OkOutcome(t))
    \/ LatestReadSettles
    \/ HistoryReadSettles

LoadSpec == Init /\ [][NextLoad]_vars

\* The event loop runs a continuation of loadData once it is ready; nothing
\* makes the network answer.
FairSpec == Spec /\ WF_vars(LoadDataStep)

\* The characters of a data line: a blank, two digits, a sign, a letter and
\* the delimiter.
LineChars == {" ", "0", "7", "-", "x", ","}

\* The lines of at most maxLen characters that .filter(l => l.trim()) lets
\* through to the callback (main.jsx:15).
DataLines(maxLen) ==
    {cs \in UNION {[1..n -> LineChars] : n \in 1..maxLen} : Trim(cs) # <<>>}

\* The callback of parseCSV returns the record of the line it is given, under
\* the headers of the "latest" file.
ParseDataLine ==
    /\ line # <<>>
    /\ record = Null
    /\ record' = Some(ParseLineChars(LatestHeader, line))
    /\ UNCHANGED <<uiVars, dataVars, flagVars, pc, err, fetchVars, readVars, line>>

\* The callback about to run on any data line within the bound.
ParseInit ==
    /\ Unmounted
    /\ line \in DataLines(MaxLineLen)
    /\ record = Null

NextParse == ParseDataLine

\* parseCSV's handling of one data line, on every line within the bound.
ParseSpec == ParseInit /\ [][NextParse]_vars

\* Largest number of data rows in a "history" response.
MaxHistoryRows == 3

\* The cells of a "history" row: three days, two of which share a display
\* label; two countries and the name "date"; two Gold counts.
HistoryDates == {"2026-02-06", "2026-02-07", "2027-02-06"}
HistoryCountries == {"Norway", "Germany", "date"}
HistoryGolds == {"1", "2"}

\* The "history" texts of at most maxRows rows.
PivotTexts(maxRows) ==
    {<<HistoryHeader>> \o rows :
        rows \in UNION {[1..n -> HistoryDates \X HistoryCountries \X HistoryGolds] :
                            n \in 0..maxRows}}

\* loadData with both texts read (main.jsx:146), about to parse them: the
\* "latest" text has no row, the "history" text is any within the bounds.
PivotInit ==
    /\ view = "table"
    /\ medalType = "Gold"
    /\ loaded = FALSE
    /\ fetchError = Null
    /\ latestData = <<>>
    /\ historyData = <<>>
    /\ countries = <<>>
    /\ selectedCountries = <<>>
    /\ lastUpdated = Null
    /\ pc = "derive"
    /\ err = Null
    /\ latestFetch = OkOutcome(<<LatestHeader>>)
    /\ historyFetch \in {OkOutcome(t) : t \in PivotTexts(MaxHistoryRows)}
    /\ fetchJoin = Fulfilled(NoRes)
    /\ latestRead = Fulfilled(latestFetch.res)
    /\ historyRead = Fulfilled(historyFetch.res)
    /\ readJoin = Fulfilled(NoRes)
    /\ line = <<>>
    /\ record = Null

NextPivot ==
    \/ Derive
    \/ Finally

\* The end of a successful load, where buildHistoryChartData runs, on every
\* "history" text within the bounds.
PivotSpec == PivotInit /\ [][NextPivot]_vars

\* ------------------------------------------------------------------------
\* Selection (C1, C2)
\* ------------------------------------------------------------------------

\* C1: the selection never holds more than 5 names, and a toggleCountry step
\* on a name that is not selected, taken when 5 are selected, leaves the
\* selection as it was (same members, same order, nothing evicted).
C1_SelectionCap ==
    /\ [](Len(selectedCountries) <= 5)
    /\ [][\A c \in ToggleNames :
            (/\ ToggleCountry(c)
             /\ Len(selectedCountries) = 5
             /\ c \notin Range(selectedCountries))
            => selectedCountries' = selectedCountries]_vars

\* Five countries are selected after a load, and a sixth name exists that is
\* not among them.
C1_Witness ==
    /\ pc = "done"
    /\ Len(selectedCountries) = 5
    /\ \E c \in ToggleNames : c \notin Range(selectedCountries)

\* next is prev with the positions holding c taken out and the others kept
\* in their order.
RemovedExactly(prev, next, c) ==
    LET keep == {i \in DOMAIN prev : prev[i] # c}
    IN  /\ Len(next) = Cardinality(keep)
        /\ \E f \in [DOMAIN next -> keep] :
            /\ \A i, j \in DOMAIN next : i < j => f[i] < f[j]
            /\ \A i \in DOMAIN next : next[i] = prev[f[i]]

\* C2: a toggleCountry step on a selected country gives the previous
\* selection with exactly that country removed, the others kept in order.
C2_ToggleRemoves ==
    [][\A c \in ToggleNames :
        (ToggleCountry(c) /\ c \in Range(selectedCountries))
        => RemovedExactly(selectedCountries, selectedCountries', c)]_vars

\* The middle one of the three initially selected countries has been toggled
\* off: the first and the third remain, in that order.
C2_Witness ==
    /\ pc = "done"
    /\ Len(countries) >= 3
    /\ selectedCountries = <<countries[1], countries[3]>>

\* ------------------------------------------------------------------------
\* The load sequence (C3, C4, C6, C10)
\* ------------------------------------------------------------------------

\* A fetch that returned a response of a non-success status.
NonOk(p) == p.state = "fulfilled" /\ ~Ok(p.res)

\* The data state holds its initial values.
DataEmpty ==
    /\ latestData = <<>>
    /\ historyData = <<>>
    /\ countries = <<>>
    /\ selectedCountries = <<>>
    /\ lastUpdated = Null

\* No body was read, so nothing was parsed.
NothingRead == latestRead = Unissued /\ historyRead = Unissued

\* The messages that name a resource that answered with a non-success status,
\* with its status code.
FailedResourceMessages ==
    {Some(<<"latest CSV: ", latestFetch.res.status>>) : x \in {1} \cap
        (IF NonOk(latestFetch) THEN {1} ELSE {})}
    \cup
    {Some(<<"history CSV: ", historyFetch.res.status>>) : x \in {1} \cap
        (IF NonOk(historyFetch) THEN {1} ELSE {})}

\* C3 as stated: once loadData has ended, a non-success status of either
\* response, whatever became of the other fetch, has given an error message
\* naming a failed resource and its status, with nothing parsed or stored.
C3_AsStated ==
    (pc = "done" /\ (NonOk(latestFetch) \/ NonOk(historyFetch)))
    => /\ fetchError \in FailedResourceMessages
       /\ DataEmpty
       /\ NothingRead

\* C3, amended: when both fetches returned a response and either status is
\* non-success, loadData ends with the message of the first failed check
\* ("latest CSV: <status>" if the latest response failed, else
\* "history CSV: <status>"), with nothing parsed or stored.
C3_StatusError ==
    (/\ pc = "done"
     /\ latestFetch.state = "fulfilled"
     /\ historyFetch.state = "fulfilled"
     /\ (NonOk(latestFetch) \/ NonOk(historyFetch)))
    => /\ loaded
       /\ fetchError =
            IF NonOk(latestFetch)
            THEN Some(<<"latest CSV: ", latestFetch.res.status>>)
            ELSE Some(<<"history CSV: ", historyFetch.res.status>>)
       /\ DataEmpty
       /\ NothingRead

\* The load has ended after the history response alone came back with a
\* non-success status.
C3_Witness ==
    /\ pc = "done"
    /\ latestFetch.state = "fulfilled" /\ Ok(latestFetch.res)
    /\ NonOk(historyFetch)
    /\ fetchError = Some(<<"history CSV: ", 404>>)

\* The outcome of the load attempt is decided: a fetch was rejected, a
\* response has a non-success status, a body read was rejected, or both
\* bodies have been read.
Resolved ==
    \/ pc \in {"derive", "catch", "finally", "done"}
    \/ pc = "awaitFetch" /\ fetchJoin.state = "rejected"
    \/ pc = "check" /\ (~Ok(latestFetch.res) \/ ~Ok(historyFetch.res))
    \/ pc = "awaitText" /\ Settled(readJoin)

\* C4: once the load attempt has resolved, loaded becomes true, and loaded
\* never goes back to false.
C4_LoadedEventually ==
    /\ Resolved ~> loaded
    /\ [][loaded => loaded']_vars

\* The load has been marked complete after a failure.
C4_Witness == loaded /\ err # Null /\ pc = "done"

\* C6 as stated: loadData is past the join only when both fetches have
\* completed.
C6_AsStated ==
    pc \notin {"mount", "awaitFetch"} => Settled(latestFetch) /\ Settled(historyFetch)

\* C6, amended: both fetches are issued before the join is awaited; loadData
\* reaches the status checks only when both fetches have fulfilled; it is past
\* the join with a fetch still pending only when the other fetch was rejected.
C6_Join ==
    /\ pc # "mount" => latestFetch.state # "unissued" /\ historyFetch.state # "unissued"
    /\ pc \in {"check", "awaitText", "derive"}
        => latestFetch.state = "fulfilled" /\ historyFetch.state = "fulfilled"
    /\ pc \notin {"mount", "awaitFetch"}
        => \/ Settled(latestFetch) /\ Settled(historyFetch)
           \/ latestFetch.state = "rejected"
           \/ historyFetch.state = "rejected"

\* loadData has ended on the rejection of one fetch while the other is still
\* in flight.
C6_Witness ==
    /\ pc = "done"
    /\ latestFetch.state = "rejected"
    /\ historyFetch.state = "pending"

\* C10: a load that ended with fetchError set left the data state at its
\* initial values, and a populated data state goes with a null fetchError.
C10_AllOrNothing ==
    /\ (pc = "done" /\ fetchError # Null) => DataEmpty
    /\ ~DataEmpty => fetchError = Null

\* A load has failed on the history resource after the latest resource had
\* been fetched in full.
C10_Witness ==
    /\ pc = "done"
    /\ fetchError # Null
    /\ latestFetch.state = "fulfilled" /\ Ok(latestFetch.res)
    /\ Len(latestFetch.res.body) > 1

\* ------------------------------------------------------------------------
\* Screens and interactions (C5, C7)
\* ------------------------------------------------------------------------

\* C5: the screen is the loading screen exactly while loaded is false, the
\* error screen exactly when loaded is true and fetchError is set, and the
\* dashboard otherwise; once the load attempt has failed (loadData caught an
\* exception) the failure stays and the dashboard is not shown.
C5_Screens ==
    /\ [](/\ Screen \in {"loading", "error", "dashboard"}
          /\ (Screen = "loading") <=> ~loaded
          /\ (Screen = "error") <=> (loaded /\ fetchError # Null)
          /\ (Screen = "dashboard") <=> (loaded /\ fetchError = Null)
          /\ err # Null => Screen # "dashboard")
    /\ [][err # Null => err' # Null]_vars

\* The error screen is shown after a failed load.
C5_Witness == Screen = "error" /\ err # Null /\ pc = "done"

\* A step that creates a fetch.
StartsFetch ==
    \/ latestFetch.state # "pending" /\ latestFetch'.state = "pending"
    \/ historyFetch.state # "pending" /\ historyFetch'.state = "pending"

\* C7: a fetch is started only by the mount step, never once the load is
\* complete and never by a step that changes view, medalType or the selection
\* of a loaded dashboard; a step that changes view changes only view, and a
\* step that changes medalType changes only medalType, among the state of the
\* component.
C7_InteractionsFrame ==
    [][/\ StartsFetch
            => /\ pc = "mount"
               /\ ~loaded
               /\ UNCHANGED <<view, medalType, selectedCountries>>
       /\ loaded => UNCHANGED pc
       /\ view' # view
            => UNCHANGED <<medalType, dataVars, flagVars, pc, fetchVars, readVars>>
       /\ medalType' # medalType
            => UNCHANGED <<view, dataVars, flagVars, pc, fetchVars, readVars>>
       /\ (loaded /\ selectedCountries' # selectedCountries)
            => UNCHANGED <<pc, fetchVars, readVars>>]_vars

\* On a loaded dashboard the view, the filter and the selection have all been
\* changed, and the data of the load is still there.
C7_Witness ==
    /\ pc = "done"
    /\ view = "timeseries"
    /\ medalType = "Silver"
    /\ Len(countries) >= 3
    /\ selectedCountries = <<countries[1]>>
    /\ Len(latestData) = MaxRows

\* ------------------------------------------------------------------------
\* Derived state of a successful load (C8, C9)
\* ------------------------------------------------------------------------

\* loadData has run its try block to the end.
Succeeded == pc \in {"finally", "done"} /\ err = Null

\* The rows of the text the "latest" response carried.
InputRows == Tail(latestFetch.res.body)

\* The position in latestData of the record of the i-th country of the list.
PosOf(i) == CHOOSE j \in DOMAIN latestData : latestData[j]["Country"] = countries[i]

GoldAt(j) == latestData[j]["Gold"].n

\* C8: after a successful load, countries names min(5, number of records)
\* distinct records, in non-increasing Gold order with equal Gold in input
\* order; no record left out has more Gold than one included; and latestData
\* holds the records in the order of the input.
C8_Top5 ==
    Succeeded =>
        /\ Len(latestData) = Len(InputRows)
        /\ \A j \in DOMAIN latestData :
            /\ latestData[j]["Country"] = Str(InputRows[j][1])
            /\ Numerals[GoldAt(j) + 1] = InputRows[j][2]
        /\ Len(countries) = (IF Len(latestData) < 5 THEN Len(latestData) ELSE 5)
        /\ \A i \in DOMAIN countries :
            \E j \in DOMAIN latestData : latestData[j]["Country"] = countries[i]
        /\ \A i, k \in DOMAIN countries :
            i < k => /\ PosOf(i) # PosOf(k)
                     /\ GoldAt(PosOf(i)) >= GoldAt(PosOf(k))
                     /\ GoldAt(PosOf(i)) = GoldAt(PosOf(k)) => PosOf(i) < PosOf(k)
        /\ \A j \in DOMAIN latestData :
            (\A i \in DOMAIN countries : PosOf(i) # j)
            => \A i \in DOMAIN countries : GoldAt(j) <= GoldAt(PosOf(i))

\* A load of six records has succeeded where the list is not the first five
\* records: a record with less Gold was left out and the order was changed.
C8_Witness ==
    /\ Succeeded
    /\ Len(latestData) = 6
    /\ Len(countries) = 5
    /\ GoldAt(1) < GoldAt(6)
    /\ countries[1] # latestData[1]["Country"]
    /\ \E i, k \in DOMAIN countries : i < k /\ GoldAt(PosOf(i)) = GoldAt(PosOf(k))

\* C9: right after the setters of a successful load, selectedCountries is the
\* first three entries of countries in order (all of them when there are
\* fewer), and lastUpdated is the Scrape_Date of the first record of the
\* input, or null when the input has no record.
C9_InitialSelection ==
    (pc = "finally" /\ err = Null) =>
        /\ Len(selectedCountries) = (IF Len(countries) < 3 THEN Len(countries) ELSE 3)
        /\ \A i \in DOMAIN selectedCountries : selectedCountries[i] = countries[i]
        /\ lastUpdated =
            IF InputRows = <<>> THEN Null ELSE Some(Str(InputRows[1][3]))

\* A load has succeeded on at least four records whose first record carries a
\* date of its own.
C9_Witness ==
    /\ pc = "finally" /\ err = Null
    /\ Len(countries) >= 4
    /\ Len(selectedCountries) = 3
    /\ lastUpdated = Some(Str("2026-02-07"))
    /\ latestData[2]["Scrape_Date"] # Str("2026-02-07")

\* A load has succeeded on fewer than three records.
C9_WitnessFew ==
    /\ pc = "finally" /\ err = Null
    /\ Len(countries) = 2
    /\ selectedCountries = countries

\* ------------------------------------------------------------------------
\* Numeric coercion of fields (C11)
\* ------------------------------------------------------------------------

\* The positions of the delimiters of a line, with the position before its
\* first character and the one after its last.
Cuts(cs) == {0, Len(cs) + 1} \cup {j \in DOMAIN cs : cs[j] = ","}

\* The i-th of them, counted from the left.
NthCut(cs, i) ==
    CHOOSE c \in Cuts(cs) : Cardinality({d \in Cuts(cs) : d < c}) = i - 1

\* The number of fields a line has, and the characters of its i-th field.
FieldCount(cs) == Cardinality(Cuts(cs)) - 1
FieldText(cs, i) == SubSeq(cs, NthCut(cs, i) + 1, NthCut(cs, i + 1) - 1)

\* A text without the blanks before its first and after its last other
\* character.
Trimmed(cs) ==
    LET inked == {i \in DOMAIN cs : cs[i] # " "}
    IN  IF inked = {} THEN <<>>
        ELSE SubSeq(cs, CHOOSE i \in inked : \A j \in inked : i <= j,
                        CHOOSE i \in inked : \A j \in inked : j <= i)

\* A text that is a numeral from its first to its last character: decimal
\* digits with at most one sign before them, or 0x and hexadecimal digits.
FullyNumeric(t) ==
    LET digitsFrom(k, set) ==
            k <= Len(t) /\ \A i \in k..Len(t) : t[i] \in set
    IN  /\ t # <<>>
        /\ \/ digitsFrom(1, Range(Numerals))
           \/ t[1] \in {"-", "+"} /\ digitsFrom(2, Range(Numerals))
           \/ Len(t) > 2 /\ t[1] = "0" /\ t[2] \in {"x", "X"}
                /\ digitsFrom(3, Range(HexDigits))

\* The trimmed text of field i of the line parsed: empty for a field the line
\* does not have.
TextOfField(i) ==
    IF i <= FieldCount(line) THEN Trimmed(FieldText(line, i)) ELSE <<>>

\* C11: for every header of a parsed line, the stored value is a number
\* exactly when the trimmed text of the field is non-empty and numeric from
\* end to end; otherwise it is the trimmed text as a string; an empty field
\* and a field the line does not have are stored as the empty string, not as
\* the number 0.
C11_Coercion ==
    record # Null =>
        \A i \in DOMAIN LatestHeader :
            LET text == TextOfField(i)
                stored == record[1][LatestHeader[i]]
            IN  /\ stored.kind \in {"number", "string"}
                /\ stored.kind = "number" <=> (text # <<>> /\ FullyNumeric(text))
                /\ stored.kind = "string" => stored.s = text
                /\ text = <<>> => stored.kind = "string" /\ stored.s = <<>>

\* A parsed line with a field that has no character, a trailing field it does
\* not have, and a field stored as a number whose text had blanks around it.
C11_Witness ==
    /\ record # Null
    /\ FieldCount(line) < Len(LatestHeader)
    /\ \E i \in 1..FieldCount(line) : FieldText(line, i) = <<>>
    /\ \E i \in 1..FieldCount(line) :
            /\ record[1][LatestHeader[i]].kind = "number"
            /\ FieldText(line, i) # TextOfField(i)

\* ------------------------------------------------------------------------
\* The pivot of the history (C12, C13)
\* ------------------------------------------------------------------------

\* The rows of the text the "history" response carried: date, country and
\* Gold count of each.
HistoryRows == Tail(historyFetch.res.body)
LabelOfRow(i) == DateLabel(Str(HistoryRows[i][1]))
CountryOfRow(i) == HistoryRows[i][2]
GoldOfRow(i) == Num((CHOOSE g \in DOMAIN Numerals : Numerals[g] = HistoryRows[i][3]) - 1)

\* The rows that are the first with their display label, and the p-th of
\* them.
FirstOfLabel ==
    {i \in DOMAIN HistoryRows : \A j \in 1..(i - 1) : LabelOfRow(j) # LabelOfRow(i)}
NthFirst(p) ==
    CHOOSE i \in FirstOfLabel : Cardinality({j \in FirstOfLabel : j < i}) = p - 1

\* The rows of the label of point p that name country c.
RowsOf(p, c) ==
    {i \in DOMAIN HistoryRows :
        LabelOfRow(i) = LabelOfRow(NthFirst(p)) /\ CountryOfRow(i) = c}

\* The last of a non-empty set of rows.
LastOf(rows) == CHOOSE i \in rows : \A j \in rows : j <= i

\* The country names that occur in the rows.
CountriesOfRows == {CountryOfRow(i) : i \in DOMAIN HistoryRows}

\* C12: after a successful load, historyData has one point per distinct
\* display label of the history rows, in the order in which the labels first
\* occur; in a point, the field of a country that has a row with the point's
\* label holds the Gold count of the last such row, and a country without
\* such a row has no field.
C12_AsStated ==
    Succeeded =>
        /\ Len(historyData) = Cardinality(FirstOfLabel)
        /\ \A p \in DOMAIN historyData :
            \A c \in CountriesOfRows :
                IF RowsOf(p, c) # {}
                THEN /\ c \in DOMAIN historyData[p]
                     /\ historyData[p][c] = GoldOfRow(LastOf(RowsOf(p, c)))
                ELSE c \notin DOMAIN historyData[p]

\* C13: after a successful load, the date field of every point of
\* historyData is the display label of the rows grouped in it.
C13_AsStated ==
    Succeeded =>
        \A p \in DOMAIN historyData :
            /\ "date" \in DOMAIN historyData[p]
            /\ historyData[p]["date"] = Str(LabelOfRow(NthFirst(p)))

====
